---- MODULE Spec2Model ----
(***************************************************************************)
(* Model of the two scripts of the repository:                             *)
(*   src/generar_figuras.py                 (download, select, render)     *)
(*   src/scripts/regenerar_figuras_eurosat.py  (re-render from images/)    *)
(*                                                                         *)
(* Images.  A raster is a sequence of rows of integer numerators over a    *)
(* common denominator: the record [px |-> rows, den |-> d] stands for the  *)
(* float array px / d.  A normalized image has 0 <= px[i][j] <= den.       *)
(* Library kernels with irrational weights (Gaussian) are integer          *)
(* approximations of the library's weights, normalised by their own sum.   *)
(*                                                                         *)
(* Specifications.                                                         *)
(*   SpecImg    the three filter banks applied to a loaded raster          *)
(*   SpecGray   one image through save_as_png and load_gray                *)
(*   Spec       one run of generar_figuras.py                              *)
(*   SpecRegen  one run of scripts/regenerar_figuras_eurosat.py            *)
(* Each specification holds the variables of the others at rest.           *)
(***************************************************************************)
EXTENDS Integers, Sequences, FiniteSets, TLC

(***************************************************************************)
(* Bounds of the model (not program constants).                            *)
(***************************************************************************)
\* side of the square test rasters fed to the filter banks
ImgSide == 3
\* gray levels of a test raster are 0..MaxLevel, standing for k / MaxLevel
MaxLevel == 2

\* at most this many radiographs in indiana/CXR_png
MaxCxr == 4

\* download_file: chunks of the payload, and calls on one destination
PayloadChunks == 6
MaxCalls == 6

\* image sides tried: 1..SmallSide, and the sides within Margin of each max_side
SmallSide == 2
Margin == 1

(***************************************************************************)
(* Program constants.                                                      *)
(***************************************************************************)
\* load_gray(p, max_side=400) of the grid of originals
GridMaxSide == 400
\* max_side=512, the default of load_gray and save_as_png
DefaultMaxSide == 512
\* morph_filters(x, 4)
MorphRadius == 4
\* uint8 full scale: arr.astype(np.float32) / 255.0
FullScale == 255

(***************************************************************************)
(* Arithmetic helpers.                                                     *)
(***************************************************************************)
Max2(a, b) == IF a >= b THEN a ELSE b
Min2(a, b) == IF a <= b THEN a ELSE b
SetMax(S) == CHOOSE m \in S : \A y \in S : y <= m
SetMin(S) == CHOOSE m \in S : \A y \in S : y >= m
Abs(a) == IF a < 0 THEN -a ELSE a

RECURSIVE SumSeq(_)
SumSeq(s) == IF s = <<>> THEN 0 ELSE Head(s) + SumSeq(Tail(s))

\* integer square root (floor), by bisection on 0..n
RECURSIVE ISqrtIn(_, _, _)
ISqrtIn(n, lo, hi) ==
    IF lo >= hi THEN lo
    ELSE LET mid == (lo + hi + 1) \div 2
         IN  IF mid * mid <= n THEN ISqrtIn(n, mid, hi) ELSE ISqrtIn(n, lo, mid - 1)
ISqrt(n) == ISqrtIn(n, 0, Min2(n, 46340))

(***************************************************************************)
(* Rasters.                                                                *)
(***************************************************************************)
Rows(a) == Len(a)
Cols(a) == Len(a[1])
PixelSet(a) == {a[i][j] : i \in 1..Rows(a), j \in 1..Cols(a)}

\* the h x w array with F(i, j) at row i, column j, computed once
\* (f @@ <<>> is f, evaluated on its whole domain)
Raster(h, w, F(_, _)) ==
    [i \in 1..h |-> [j \in 1..w |-> F(i, j)] @@ <<>>] @@ <<>>
MapPx(a, F(_)) == Raster(Rows(a), Cols(a), LAMBDA i, j : F(a[i][j]))

\* scipy.ndimage border modes, 1-based index i into an axis of length n
\* 'reflect'  (d c b a | a b c d | d c b a)
Reflect(i, n) ==
    LET m == (i - 1) % (2 * n) IN IF m < n THEN m + 1 ELSE 2 * n - m
\* 'nearest'  (a a a a | a b c d | d d d d)
Nearest(i, n) == IF i < 1 THEN 1 ELSE IF i > n THEN n ELSE i

\* skimage.morphology.disk(r): (X**2 + Y**2) <= r**2 on the (2r+1)^2 grid
disk(r) == {d \in (-r..r) \X (-r..r) : d[1] * d[1] + d[2] * d[2] <= r * r}

(***************************************************************************)
(* exposure.rescale_intensity(image, in_range="image", out_range=(0, 1)):  *)
(*   imin, imax = image.min(), image.max()                                 *)
(*   if imin != imax: (image - imin) / (imax - imin)                       *)
(*   else:            np.clip(image, 0, 1)                                 *)
(***************************************************************************)
Clip(v, lo, hi) == IF v < lo THEN lo ELSE IF v > hi THEN hi ELSE v

rescale_intensity(img) ==
    LET imin == SetMin(PixelSet(img.px))
        imax == SetMax(PixelSet(img.px))
    IN  IF imin # imax
        THEN [px |-> MapPx(img.px, LAMBDA v : v - imin), den |-> imax - imin]
        ELSE [px |-> MapPx(img.px, LAMBDA v : Clip(v, 0, img.den)), den |-> img.den]

(***************************************************************************)
(* skimage.filters.gaussian(x, sigma): separable convolution, border mode  *)
(* 'nearest', truncate = 4 sigma.  A kernel is the sequence of its weights *)
(* at offsets 0..R, w(k) ~ 100 * exp(-k^2 / (2 sigma^2)); the result is    *)
(* over the denominator den * W^2, W the sum of the two-sided kernel.      *)
(***************************************************************************)
\* sigma = 1.0, radius 4
KernelS1 == <<100, 61, 14, 1, 0>>
\* sigma = 2.0, radius 8
KernelS2 == <<100, 88, 61, 32, 14, 4, 1, 0, 0>>
\* sigma = 1.5, radius 6
KernelS15 == <<100, 80, 41, 14, 3, 0, 0>>
\* sigma = 1.2, radius 5 (canny's smoothing), weights ~ 10 * exp(-k^2 / 2.88)
KernelS12 == <<10, 7, 2, 0, 0, 0>>

KernelRadius(k) == Len(k) - 1
KernelWeight(k, off) == k[Abs(off) + 1]
KernelSum(k) ==
    SumSeq([n \in 1..(2 * KernelRadius(k) + 1) |-> KernelWeight(k, n - 1 - KernelRadius(k))])

\* one pass along the rows axis (axis 0), then one along the columns axis
GaussAxis0(a, k) ==
    LET R == KernelRadius(k)
    IN  Raster(Rows(a), Cols(a), LAMBDA i, j :
            SumSeq([n \in 1..(2 * R + 1) |->
                KernelWeight(k, n - 1 - R) * a[Nearest(i + n - 1 - R, Rows(a))][j]]))
GaussAxis1(a, k) ==
    LET R == KernelRadius(k)
    IN  Raster(Rows(a), Cols(a), LAMBDA i, j :
            SumSeq([n \in 1..(2 * R + 1) |->
                KernelWeight(k, n - 1 - R) * a[i][Nearest(j + n - 1 - R, Cols(a))]]))

gaussian(img, k) ==
    LET pass0 == GaussAxis0(img.px, k)
    IN  [px |-> GaussAxis1(pass0, k),
         den |-> img.den * KernelSum(k) * KernelSum(k)]

(***************************************************************************)
(* skimage.filters.median(x, footprint=disk(r)): ndi.median_filter with    *)
(* border mode 'nearest'; the element of rank size // 2 of the sorted      *)
(* window (duplicates counted).                                            *)
(***************************************************************************)
WindowNearest(a, i, j, se) ==
    [d \in se |-> a[Nearest(i + d[1], Rows(a))][Nearest(j + d[2], Cols(a))]] @@ <<>>

RankOf(win, rank) ==
    LET vals == {win[d] : d \in DOMAIN win}
    IN  CHOOSE v \in vals :
            /\ Cardinality({d \in DOMAIN win : win[d] < v}) <= rank
            /\ Cardinality({d \in DOMAIN win : win[d] <= v}) > rank

median(img, r) ==
    LET a == img.px
        se == disk(r)
        rank == Cardinality(se) \div 2
    IN  [px |-> Raster(Rows(a), Cols(a), LAMBDA i, j :
                    RankOf(WindowNearest(a, i, j, se), rank)),
         den |-> img.den]

(***************************************************************************)
(* skimage.morphology erosion / dilation / opening / closing /             *)
(* white_tophat with footprint se, border mode 'reflect'.                  *)
(***************************************************************************)
\* a with a border of width b added on every side, filled by reflection:
\* PadReflect(a, b)[i + b][j + b] = a[Reflect(i), Reflect(j)] for -b < i, j
PadReflect(a, b) ==
    LET ri == [k \in 1..(Rows(a) + 2 * b) |-> Reflect(k - b, Rows(a))] @@ <<>>
        ci == [k \in 1..(Cols(a) + 2 * b) |-> Reflect(k - b, Cols(a))] @@ <<>>
    IN  Raster(Rows(a) + 2 * b, Cols(a) + 2 * b, LAMBDA i, j : a[ri[i]][ci[j]])

\* the reach of a footprint: the largest offset in it
Reach(se) == SetMax({Abs(d[1]) : d \in se} \cup {Abs(d[2]) : d \in se})

erosion(img, se) ==
    LET b == Reach(se)
        p == PadReflect(img.px, b)
    IN  [px |-> Raster(Rows(img.px), Cols(img.px), LAMBDA i, j :
                    SetMin({p[i + b + d[1]][j + b + d[2]] : d \in se})),
         den |-> img.den]

\* the dilation uses the mirrored footprint
dilation(img, se) ==
    LET b == Reach(se)
        p == PadReflect(img.px, b)
    IN  [px |-> Raster(Rows(img.px), Cols(img.px), LAMBDA i, j :
                    SetMax({p[i + b - d[1]][j + b - d[2]] : d \in se})),
         den |-> img.den]

opening(img, se) ==
    LET eroded == erosion(img, se) IN dilation(eroded, se)

closing(img, se) ==
    LET dilated == dilation(img, se) IN erosion(dilated, se)

white_tophat(img, se) ==
    LET a == img.px
        o == opening(img, se).px
    IN  [px |-> Raster(Rows(a), Cols(a), LAMBDA i, j : a[i][j] - o[i][j]),
         den |-> img.den]

(***************************************************************************)
(* skimage.filters.sobel: per-axis kernels [1 2 1]/4 x [1 0 -1], border    *)
(* 'reflect'; magnitude sqrt((sx^2 + sy^2) / 2).  With SX, SY the integer  *)
(* kernel sums the magnitude is sqrt((SX^2 + SY^2) * 5000) / (400 * den);  *)
(* the square root is taken to the integer below.                          *)
(***************************************************************************)
At(a, i, j) == a[Reflect(i, Rows(a))][Reflect(j, Cols(a))]

SobelAxis0(a, i, j) ==
    (At(a, i + 1, j - 1) + 2 * At(a, i + 1, j) + At(a, i + 1, j + 1))
  - (At(a, i - 1, j - 1) + 2 * At(a, i - 1, j) + At(a, i - 1, j + 1))
SobelAxis1(a, i, j) ==
    (At(a, i - 1, j + 1) + 2 * At(a, i, j + 1) + At(a, i + 1, j + 1))
  - (At(a, i - 1, j - 1) + 2 * At(a, i, j - 1) + At(a, i + 1, j - 1))

SumSquares(a, b) == a * a + b * b

sobel(img) ==
    LET a == img.px
    IN  [px |-> Raster(Rows(a), Cols(a), LAMBDA i, j :
                    ISqrt(SumSquares(SobelAxis0(a, i, j), SobelAxis1(a, i, j)) * 5000)),
         den |-> 400 * img.den]

\* np.abs(skimage.filters.laplace(x)): kernel [[0 -1 0] [-1 4 -1] [0 -1 0]], 'reflect'
abs_laplace(img) ==
    LET a == img.px
    IN  [px |-> Raster(Rows(a), Cols(a), LAMBDA i, j :
                    Abs(4 * a[i][j] - At(a, i - 1, j) - At(a, i + 1, j)
                                    - At(a, i, j - 1) - At(a, i, j + 1))),
         den |-> img.den]

(***************************************************************************)
(* skimage.feature.canny(x, 1.2).astype(np.float32): a Boolean edge mask   *)
(* cast to 0.0 / 1.0.  The library's detector is abstracted to its first   *)
(* two stages: Gaussian smoothing at sigma 1.2 and the gradient magnitude  *)
(* (hypot of the unnormalised Sobel sums) compared with the default high   *)
(* threshold 0.2; non-maximum suppression and hysteresis are left out.     *)
(***************************************************************************)
canny(img) ==
    LET g == gaussian(img, KernelS12)
        a == g.px
        gden == g.den
    IN  [px |-> Raster(Rows(a), Cols(a), LAMBDA i, j :
                    IF 5 * ISqrt(SumSquares(SobelAxis0(a, i, j), SobelAxis1(a, i, j))) >= gden
                    THEN 1 ELSE 0),
         den |-> 1]

(***************************************************************************)
(* np.clip(x + (x - gaussian(x, k)) * amount, 0, 1), amount = an / ad.     *)
(* Over the denominator ad * den * W^2.                                    *)
(***************************************************************************)
\* the same without the np.clip
unsharp_noclip(img, k, an, ad) ==
    LET a == img.px
        g == gaussian(img, k).px
        W2 == KernelSum(k) * KernelSum(k)
        top == ad * img.den * W2
    IN  [px |-> Raster(Rows(a), Cols(a), LAMBDA i, j :
                    (ad + an) * W2 * a[i][j] - an * g[i][j]),
         den |-> top]

unsharp(img, k, an, ad) ==
    LET a == img.px
        g == gaussian(img, k).px
        W2 == KernelSum(k) * KernelSum(k)
        top == ad * img.den * W2
    IN  [px |-> Raster(Rows(a), Cols(a), LAMBDA i, j :
                    Clip((ad + an) * W2 * a[i][j] - an * g[i][j], 0, top)),
         den |-> top]


(***************************************************************************)
(* Image files and normalisation.                                          *)
(*                                                                         *)
(* An image file is [h, w, px]: its height and width and, standing for     *)
(* its h x w uint8 pixels, the one-row raster px of the distinct gray      *)
(* values in it (rescaling needs only the values, resizing only the        *)
(* sides).  An array returned by load_gray is [ok, h, w, px, den] with px  *)
(* over den; ok = FALSE stands for the call raising instead of returning.  *)
(***************************************************************************)
RECURSIVE SortedSeq(_)
SortedSeq(V) == IF V = {} THEN <<>> ELSE <<SetMin(V)>> \o SortedSeq(V \ {SetMin(V)})

Palette(V) == <<SortedSeq(V)>>

RECURSIVE OddPart(_)
OddPart(m) == IF m % 2 = 0 THEN OddPart(m \div 2) ELSE m

\* int(v / scale) with scale = L / max_side, in IEEE doubles.  The quotient
\* v * max_side / L is rounded down; when it is a whole number and scale is not
\* exact in binary (L is no multiple of the odd part of max_side) the double
\* may also fall just below it, and int() then gives one less
\* (int(411 / (411 / 400)) = 399).
IntOverScale(v, L, m) ==
    LET q == (v * m) \div L
    IN  IF (v * m) % L = 0 /\ L % OddPart(m) # 0 THEN {q - 1, q} ELSE {q}

Raised == [ok |-> FALSE, h |-> 0, w |-> 0, px |-> <<<<0>>>>, den |-> 1]

\* skimage.transform.resize(x, (new_h, new_w), anti_aliasing=True,
\* preserve_range=True): raises on a zero-sized target (the anti-aliasing sigma
\* is infinite); else every output pixel is an average of input pixels, clipped
\* to the input's range (clip=True).  The values kept are the input's and the
\* means of two of them, over the denominator 2 * den.
resize(img, new_h, new_w) ==
    IF new_h = 0 \/ new_w = 0 THEN Raised
    ELSE LET V == PixelSet(img.px)
         IN  [ok |-> TRUE, h |-> new_h, w |-> new_w,
              px |-> Palette({Clip(a + b, 2 * SetMin(V), 2 * SetMax(V)) : a \in V, b \in V}),
              den |-> 2 * img.den]

\* load_gray(path, max_side): the set of its possible outcomes
load_gray(f, max_side) ==
    LET x1 == rescale_intensity([px |-> f.px, den |-> FullScale])
        L == Max2(f.h, f.w)
    IN  IF L > max_side
        THEN {resize(x1, nh, nw) : nh \in IntOverScale(f.h, L, max_side),
                                   nw \in IntOverScale(f.w, L, max_side)}
        ELSE {[ok |-> TRUE, h |-> f.h, w |-> f.w, px |-> x1.px, den |-> x1.den]}

\* save_as_png(src, dst, max_side=512): the set of its possible outcomes, the
\* file written ([ok, h, w, px]) or ok = FALSE when Image.resize raises on a
\* zero-sized target.  LANCZOS resampling gives uint8 values that are means of
\* input values or overshoot them, clipped to 0..255.
save_as_png(f, max_side) ==
    LET L == Max2(f.w, f.h)
        V == PixelSet(f.px)
        out == {Clip((a + b) \div 2, 0, FullScale) : a \in V, b \in V}
               \cup {Clip(a + (a - b) \div 4, 0, FullScale) : a \in V, b \in V}
    IN  IF L > max_side
        THEN {IF nw = 0 \/ nh = 0
              THEN [ok |-> FALSE, h |-> 0, w |-> 0, px |-> <<<<0>>>>]
              ELSE [ok |-> TRUE, h |-> nh, w |-> nw, px |-> Palette(out)] :
                 nw \in IntOverScale(f.w, L, max_side),
                 nh \in IntOverScale(f.h, L, max_side)}
        ELSE {[ok |-> TRUE, h |-> f.h, w |-> f.w, px |-> f.px]}

(***************************************************************************)
(* The three banks (generar_figuras.py 281-310; the same text in           *)
(* scripts/regenerar_figuras_eurosat.py 56-88).  A bank is a function from *)
(* the dict's keys to rasters.                                             *)
(***************************************************************************)
\* a bank that holds the edge mask only when some edge was found
spatial_filters_dropkey(img) ==
    LET edges == canny(img)
        rest == ("gaussian_s1" :> gaussian(img, KernelS1))
             @@ ("gaussian_s2" :> gaussian(img, KernelS2))
             @@ ("median_r2" :> median(img, 2))
             @@ ("median_r4" :> median(img, 4))
             @@ ("unsharp_r1_a1" :> unsharp(img, KernelS1, 1, 1))
             @@ ("sobel" :> rescale_intensity(sobel(img)))
             @@ ("laplace" :> rescale_intensity(abs_laplace(img)))
    IN  IF 1 \in PixelSet(edges.px) THEN rest @@ ("canny_s12" :> edges) ELSE rest

spatial_filters(img) ==
    ("gaussian_s1" :> gaussian(img, KernelS1))
 @@ ("gaussian_s2" :> gaussian(img, KernelS2))
 @@ ("median_r2" :> median(img, 2))
 @@ ("median_r4" :> median(img, 4))
 @@ ("unsharp_r1_a1" :> unsharp(img, KernelS1, 1, 1))
 @@ ("sobel" :> rescale_intensity(sobel(img)))
 @@ ("laplace" :> rescale_intensity(abs_laplace(img)))
 @@ ("canny_s12" :> canny(img))

\* the f-string keys f"opening_r{r}", ...
MorphKey(name, r) == name \o "_r" \o ToString(r)

\* a bank whose opening and closing entries hold the erosion and the dilation
morph_filters_halfway(img, rad) ==
    LET se == disk(rad)
    IN  (MorphKey("opening", rad) :> erosion(img, se))
     @@ (MorphKey("closing", rad) :> dilation(img, se))
     @@ (MorphKey("tophat", rad) :> white_tophat(img, se))
     @@ (MorphKey("erosion", rad) :> erosion(img, se))
     @@ (MorphKey("dilation", rad) :> dilation(img, se))

morph_filters(img, rad) ==
    LET se == disk(rad)
    IN  (MorphKey("opening", rad) :> opening(img, se))
     @@ (MorphKey("closing", rad) :> closing(img, se))
     @@ (MorphKey("tophat", rad) :> white_tophat(img, se))
     @@ (MorphKey("erosion", rad) :> erosion(img, se))
     @@ (MorphKey("dilation", rad) :> dilation(img, se))

pipelines(img) ==
    LET den == median(img, 3)
        p1 == unsharp(den, KernelS15, 6, 5)
        p2 == opening(closing(img, disk(3)), disk(3))
    IN  ("P1_med3+unsharp" :> p1) @@ ("P2_close+open" :> p2)


(***************************************************************************)
(* State.                                                                  *)
(***************************************************************************)
VARIABLES
    \* the body of the montage loop (generar_figuras.py 350-353)
    x,          \* the normalized raster being filtered
    r,          \* the radius passed to morph_filters
    S,          \* spatial_filters(x), EmptyBank before the call
    M,          \* morph_filters(x, r)
    P,          \* pipelines(x)
    lab_pc,     \* position in the loop body
    fed,        \* which result of M was fed back in as x ("none" at first)
    \* one image through save_as_png and load_gray
    file,       \* the image file at hand
    max_side,   \* the max_side of the load_gray call (0 before it)
    out,        \* what load_gray gave
    gray_pc,    \* "source", "saved", "loaded" or "raised"
    \* a run of generar_figuras.py: the file system
    raw,        \* data_raw: each archive file is "none", "partial" or "complete"
    extracted,  \* whether each archive's extracted directory exists
    cxr_dir,    \* the files of indiana/indiana/CXR_png (<<>>: none, or no directory)
    images,     \* images/I01.png .. I09.png: the file in each slot, or NoFile
    \* the run's variables
    pc,         \* position in the script
    cur,        \* index of the archive at hand, or of the loop under way
    cxr_images, \* list_images(cxr_dir), or <<>>
    eurosat_images,
    selected,
    industrial_count,
    img_paths,  \* sorted(IMG_DIR.glob("I*.png")), as slot numbers
    \* what the run has done so far
    dir_seen,   \* per archive: what `not <dir>.exists()` found ("unchecked" before)
    dl_calls,   \* per archive: calls of download_file
    dl_ret,     \* per archive: what download_file returned ("none" before)
    ex_calls,   \* per archive: calls of extract_zip / extract_tar_xz
    tfds,       \* "untried", "missing" (ImportError), "imported", "loaded" or "failed"
    img_writes, \* per slot: how often save_as_png wrote it
    grid_writes,    \* how often originals_grid.png was written
    montage_writes, \* per slot: how often I0N_montage.png was written
    hist_writes,    \* per slot: how often I0N_hist.png was written
    exc         \* "" or the call that raised and ended the run

labVars == <<x, r, S, M, P, lab_pc, fed>>
grayVars == <<file, max_side, out, gray_pc>>
fsVars == <<raw, extracted, cxr_dir, images>>
progVars == <<pc, cur, cxr_images, eurosat_images, selected, industrial_count, img_paths>>
histVars == <<dir_seen, dl_calls, dl_ret, ex_calls, tfds, img_writes,
              grid_writes, montage_writes, hist_writes, exc>>
runVars == <<fsVars, progVars, histVars>>
vars == <<labVars, grayVars, runVars>>

EmptyBank == [k \in {} |-> 0]

(***************************************************************************)
(* Test rasters: ImgSide x ImgSide, a background level with one rectangle  *)
(* of a second level (constant rasters, single pixels, bars and step edges *)
(* are all of this form), over the denominator MaxLevel.                   *)
(***************************************************************************)
RectRaster(bg, fg, i1, i2, j1, j2) ==
    [px |-> [i \in 1..ImgSide |-> [j \in 1..ImgSide |->
                IF i1 <= i /\ i <= i2 /\ j1 <= j /\ j <= j2 THEN fg ELSE bg]],
     den |-> MaxLevel]

TestRasters ==
    {RectRaster(bg, fg, i1, i2, j1, j2) :
        bg \in 0..MaxLevel, fg \in 0..MaxLevel,
        i1 \in 1..ImgSide, i2 \in 1..ImgSide, j1 \in 1..ImgSide, j2 \in 1..ImgSide}

InitLab ==
    /\ x \in TestRasters
    /\ r = MorphRadius
    /\ S = EmptyBank /\ M = EmptyBank /\ P = EmptyBank
    /\ lab_pc = "spatial"
    /\ fed = "none"

\* S = spatial_filters(x)
CallSpatial ==
    /\ lab_pc = "spatial"
    /\ S' = spatial_filters(x)
    /\ lab_pc' = "morph"
    /\ UNCHANGED <<x, r, M, P, fed, grayVars, runVars>>

\* M = morph_filters(x, r): the scripts pass r = 4
CallMorph ==
    /\ lab_pc = "morph"
    /\ M' = morph_filters(x, r)
    /\ lab_pc' = "pipelines"
    /\ UNCHANGED <<x, r, S, P, fed, grayVars, runVars>>

\* P = pipelines(x)
CallPipelines ==
    /\ lab_pc = "pipelines"
    /\ P' = pipelines(x)
    /\ lab_pc' = "done"
    /\ UNCHANGED <<x, r, S, M, fed, grayVars, runVars>>

\* the opening (closing) of x by a disk of any radius up to the scripts'
\* becomes the next raster put through the banks, with that radius
Reapply ==
    /\ lab_pc = "done"
    /\ fed = "none"
    /\ \E name \in {"opening", "closing"}, rr \in 1..MorphRadius :
          /\ x' = IF name = "opening" THEN opening(x, disk(rr)) ELSE closing(x, disk(rr))
          /\ r' = rr
          /\ fed' = name
    /\ S' = EmptyBank /\ M' = EmptyBank /\ P' = EmptyBank
    /\ lab_pc' = "spatial"
    /\ UNCHANGED <<grayVars, runVars>>

\* the other parts of the state, at rest
IdleLab ==
    /\ x = RectRaster(0, 0, 1, 1, 1, 1) /\ r = MorphRadius
    /\ S = EmptyBank /\ M = EmptyBank /\ P = EmptyBank
    /\ lab_pc = "idle" /\ fed = "none"

IdleGray ==
    /\ file = [ok |-> TRUE, h |-> 1, w |-> 1, px |-> <<<<0>>>>]
    /\ max_side = 0 /\ out = Raised /\ gray_pc = "idle"

NoFile == [ok |-> FALSE, h |-> 0, w |-> 0, px |-> <<<<0>>>>]

Archives == <<"indiana", "grid", "leather", "metal_nut">>
ArchiveSet == {Archives[i] : i \in 1..Len(Archives)}
Slots == 1..9

IdleRun ==
    /\ raw = [a \in ArchiveSet |-> "none"]
    /\ extracted = [a \in ArchiveSet |-> FALSE]
    /\ cxr_dir = <<>>
    /\ images = [n \in Slots |-> NoFile]
    /\ pc = "idle" /\ cur = 0
    /\ cxr_images = <<>> /\ eurosat_images = <<>> /\ selected = <<>>
    /\ industrial_count = 0 /\ img_paths = <<>>
    /\ dir_seen = [a \in ArchiveSet |-> "unchecked"]
    /\ dl_calls = [a \in ArchiveSet |-> 0]
    /\ dl_ret = [a \in ArchiveSet |-> "none"]
    /\ ex_calls = [a \in ArchiveSet |-> 0]
    /\ tfds = "untried"
    /\ img_writes = [n \in Slots |-> 0]
    /\ grid_writes = 0
    /\ montage_writes = [n \in Slots |-> 0]
    /\ hist_writes = [n \in Slots |-> 0]
    /\ exc = ""

NextImg == CallSpatial \/ CallMorph \/ CallPipelines \/ Reapply

InitImg == InitLab /\ IdleGray /\ IdleRun

SpecImg == InitImg /\ [][NextImg]_vars

(***************************************************************************)
(* One image through save_as_png (selection stage) and load_gray (figure   *)
(* stage); regenerar_figuras_eurosat.py loads files it did not save.       *)
(***************************************************************************)
Sides ==
    (1..SmallSide)
    \cup ((GridMaxSide - Margin)..(GridMaxSide + Margin))
    \cup ((DefaultMaxSide - Margin)..(DefaultMaxSide + Margin))
    \cup {411, 600, 1024}

GrayLevels == {0, 100, FullScale}

SourceFiles ==
    {[ok |-> TRUE, h |-> hh, w |-> ww, px |-> Palette(V)] :
        hh \in Sides, ww \in Sides, V \in (SUBSET GrayLevels) \ {{}}}

InitGrayRun ==
    /\ file \in SourceFiles
    /\ max_side = 0 /\ out = Raised /\ gray_pc = "source"

\* save_as_png(src, dst): the file loaded later is the one written
SaveAsPng ==
    /\ gray_pc = "source"
    /\ \E saved \in save_as_png(file, DefaultMaxSide) :
          IF saved.ok
          THEN file' = saved /\ gray_pc' = "saved"
          ELSE file' = file /\ gray_pc' = "raised"
    /\ UNCHANGED <<max_side, out, labVars, runVars>>

\* x = load_gray(p, max_side=400) or load_gray(p, max_side=512)
LoadGray ==
    /\ gray_pc \in {"source", "saved"}
    /\ \E m \in {GridMaxSide, DefaultMaxSide} :
          /\ max_side' = m
          /\ \E res \in load_gray(file, m) :
                /\ out' = res
                /\ gray_pc' = IF res.ok THEN "loaded" ELSE "raised"
    /\ UNCHANGED <<file, labVars, runVars>>

NextGray == SaveAsPng \/ LoadGray

InitGray == InitGrayRun /\ IdleLab /\ IdleRun

SpecGray == InitGray /\ [][NextGray]_vars

(***************************************************************************)
(* One run of generar_figuras.py (SPECIFICATION Spec).  The run starts on  *)
(* whatever data_raw and images hold: nothing, or what an earlier run left *)
(* there.  The network, the archives' content and the installed packages   *)
(* are the environment.                                                    *)
(***************************************************************************)
SrcPx == <<<<0, FullScale>>>>

SrcFile(hh, ww) == [ok |-> TRUE, h |-> hh, w |-> ww, px |-> SrcPx]

\* radiograph sizes: a usual one, one that is 1 px thin after the save, one
\* whose shorter side vanishes in the save
CxrDims == {<<1024, 1024>>, <<1024, 2>>, <<1024, 1>>}

\* what indiana/indiana/CXR_png can hold (<<>>: empty or no such directory)
CxrDatasets ==
    {[k \in 1..n |-> SrcFile(d[1], d[2])] : n \in 0..MaxCxr, d \in CxrDims}

\* the first defect image of an MVTec category
MvtecFile == SrcFile(1024, 1024)

\* the samples of the fallback branch: astronaut, coffee, grass
fallback_imgs ==
    << [name |-> "Residential", file |-> SrcFile(512, 512)],
       [name |-> "River", file |-> SrcFile(400, 600)],
       [name |-> "Forest", file |-> SrcFile(512, 512)] >>

\* the first labels met in the tfds split, as far as the model goes
label_names == <<"AnnualCrop", "Forest", "HerbaceousVegetation">>

\* download_file(url, dest) on a destination in state `dest`: the set of
\* [ret, dest] it can end in.  An existing file is taken as it is; otherwise
\* the request can fail before the file is opened, fail after it was opened
\* for writing, or go through.
download_file(dest) ==
    IF dest # "none"
    THEN {[ret |-> TRUE, dest |-> dest]}
    ELSE {[ret |-> TRUE, dest |-> "complete"],
          [ret |-> FALSE, dest |-> "none"],
          [ret |-> FALSE, dest |-> "partial"]}

\* the download-and-extract block is entered only without the target directory
NeedsDownloadAlways(a) == TRUE

NeedsDownload(a) == ~extracted[a]

Crash(what) ==
    /\ pc' = "crashed"
    /\ exc' = what

\* where the script goes after the block of archive number i
AfterArchive(i) ==
    IF i = 1 THEN pc' = "list_cxr" /\ cur' = cur
    ELSE IF i < Len(Archives) THEN pc' = "acquire" /\ cur' = i + 1
    ELSE pc' = "eurosat" /\ cur' = 0

\* `if not <dir>.exists():` found the directory
SkipExisting ==
    /\ pc = "acquire"
    /\ LET a == Archives[cur]
       IN  /\ ~NeedsDownload(a)
           /\ dir_seen' = [dir_seen EXCEPT ![a] = "exists"]
    /\ AfterArchive(cur)
    /\ UNCHANGED <<fsVars, cxr_images, eurosat_images, selected, industrial_count,
                   img_paths, dl_calls, dl_ret, ex_calls, tfds, img_writes,
                   grid_writes, montage_writes, hist_writes, exc, labVars, grayVars>>

\* `if download_file(url, dest):` without the directory
Download ==
    /\ pc = "acquire"
    /\ LET a == Archives[cur]
       IN  /\ NeedsDownload(a)
           /\ dir_seen' = [dir_seen EXCEPT ![a] = IF extracted[a] THEN "exists" ELSE "missing"]
           /\ dl_calls' = [dl_calls EXCEPT ![a] = @ + 1]
           /\ \E o \in download_file(raw[a]) :
                 /\ raw' = [raw EXCEPT ![a] = o.dest]
                 /\ dl_ret' = [dl_ret EXCEPT ![a] = IF o.ret THEN "true" ELSE "false"]
                 /\ IF o.ret
                    THEN pc' = "extract" /\ cur' = cur
                    ELSE AfterArchive(cur)
    /\ UNCHANGED <<extracted, cxr_dir, images, cxr_images, eurosat_images, selected,
                   industrial_count, img_paths, ex_calls, tfds, img_writes,
                   grid_writes, montage_writes, hist_writes, exc, labVars, grayVars>>

\* extract_zip / extract_tar_xz: a file that is no whole archive makes the
\* archive reader raise, and nothing catches it
Extract ==
    /\ pc = "extract"
    /\ LET a == Archives[cur]
       IN  /\ ex_calls' = [ex_calls EXCEPT ![a] = @ + 1]
           /\ IF raw[a] = "complete"
              THEN /\ extracted' = [extracted EXCEPT ![a] = TRUE]
                   /\ IF a = "indiana"
                      THEN cxr_dir' \in CxrDatasets
                      ELSE cxr_dir' = cxr_dir
                   /\ AfterArchive(cur)
                   /\ exc' = exc
              ELSE /\ Crash("extract")
                   /\ UNCHANGED <<extracted, cxr_dir, cur>>
    /\ UNCHANGED <<raw, images, cxr_images, eurosat_images, selected, industrial_count,
                   img_paths, dir_seen, dl_calls, dl_ret, tfds, img_writes,
                   grid_writes, montage_writes, hist_writes, labVars, grayVars>>

\* cxr_images = list_images(cxr_dir) if cxr_dir.exists() else []
ListCxr ==
    /\ pc = "list_cxr"
    /\ cxr_images' = cxr_dir
    /\ pc' = "acquire" /\ cur' = 2
    /\ UNCHANGED <<fsVars, eurosat_images, selected, industrial_count, img_paths,
                   histVars, labVars, grayVars>>

\* import tensorflow_datasets: there or not
ImportTfds ==
    /\ pc = "eurosat"
    /\ eurosat_images' = <<>>
    /\ \/ tfds' = "missing" /\ pc' = "fallback" /\ cur' = 1
       \/ tfds' = "imported" /\ pc' = "tfds_load" /\ cur' = cur
    /\ UNCHANGED <<fsVars, cxr_images, selected, industrial_count, img_paths,
                   dir_seen, dl_calls, dl_ret, ex_calls, img_writes,
                   grid_writes, montage_writes, hist_writes, exc, labVars, grayVars>>

\* tfds.load and the loop over the split: up to three images of distinct
\* classes, or an exception that is no ImportError
TfdsLoad ==
    /\ pc = "tfds_load"
    /\ \/ /\ \E k \in 0..Len(label_names) :
                eurosat_images' = [i \in 1..k |-> [name |-> label_names[i],
                                                    file |-> SrcFile(64, 64)]]
          /\ tfds' = "loaded"
          /\ pc' = "sel_med" /\ cur' = 0
          /\ exc' = exc
       \/ /\ tfds' = "failed"
          /\ Crash("tfds.load")
          /\ UNCHANGED <<eurosat_images, cur>>
    /\ UNCHANGED <<fsVars, cxr_images, selected, industrial_count, img_paths,
                   dir_seen, dl_calls, dl_ret, ex_calls, img_writes,
                   grid_writes, montage_writes, hist_writes, labVars, grayVars>>

\* one round of `for name, func in fallback_imgs:`; whatever the body raises
\* is swallowed and the sample is left out
FallbackSample ==
    /\ pc = "fallback"
    /\ \/ eurosat_images' = Append(eurosat_images, fallback_imgs[cur])
       \/ eurosat_images' = eurosat_images
    /\ IF cur < Len(fallback_imgs)
       THEN pc' = pc /\ cur' = cur + 1
       ELSE pc' = "sel_med" /\ cur' = 0
    /\ UNCHANGED <<fsVars, cxr_images, selected, industrial_count, img_paths,
                   histVars, labVars, grayVars>>


\* save_as_png(src, IMG_DIR / "I0<slot>.png") and selected.append(...); an
\* exception of Image.resize ends the run
SaveSelected(dom, src, name, slot) ==
    \E saved \in save_as_png(src, DefaultMaxSide) :
        IF saved.ok
        THEN /\ images' = [images EXCEPT ![slot] = saved]
             /\ img_writes' = [img_writes EXCEPT ![slot] = @ + 1]
             /\ selected' = Append(selected, [dom |-> dom, src |-> name, dst |-> slot])
             /\ exc' = exc
        ELSE /\ Crash("save_as_png")
             /\ UNCHANGED <<images, img_writes, selected>>

\* `if cxr_images:` with an empty list
SkipMedical ==
    /\ pc = "sel_med"
    /\ cxr_images = <<>>
    /\ pc' = "sel_ind" /\ cur' = 1
    /\ UNCHANGED <<fsVars, cxr_images, eurosat_images, selected, industrial_count,
                   img_paths, histVars, labVars, grayVars>>

\* one round of `for i, idx in enumerate([step, step*2, step*3]):`, i = cur
SelectMedical ==
    /\ pc = "sel_med"
    /\ cxr_images # <<>>
    /\ LET step == Len(cxr_images) \div 4
           idx == step * (cur + 1)
           next == IF cur < 2 THEN pc' = pc /\ cur' = cur + 1
                   ELSE pc' = "sel_ind" /\ cur' = 1
       IN  IF idx < Len(cxr_images)
           THEN /\ SaveSelected("Medica", cxr_images[idx + 1], ToString(idx), cur + 1)
                /\ IF exc' = exc THEN next ELSE cur' = cur
           ELSE /\ next
                /\ UNCHANGED <<images, img_writes, selected, exc>>
    /\ UNCHANGED <<raw, extracted, cxr_dir, cxr_images, eurosat_images,
                   industrial_count, img_paths, dir_seen, dl_calls, dl_ret, ex_calls,
                   tfds, grid_writes, montage_writes, hist_writes, labVars, grayVars>>

\* the slot of the next industrial image
IndustrialSlotOneLow(count) == 3 + count

IndustrialSlot(count) == 4 + count

\* one round of `for cat in ["grid", "leather", "metal_nut"]:`; the category
\* at hand is Archives[cur + 1], and an extracted category has a defect image
SelectIndustrial ==
    /\ pc = "sel_ind"
    /\ LET cat == Archives[cur + 1]
           next == IF cur < 3 THEN pc' = pc /\ cur' = cur + 1
                   ELSE pc' = "sel_sat" /\ cur' = 0
       IN  IF extracted[cat]
           THEN /\ SaveSelected("Industrial", MvtecFile, cat,
                                IndustrialSlot(industrial_count))
                /\ IF exc' = exc
                   THEN next /\ industrial_count' = industrial_count + 1
                   ELSE cur' = cur /\ industrial_count' = industrial_count
           ELSE /\ next
                /\ UNCHANGED <<images, img_writes, selected, exc, industrial_count>>
    /\ UNCHANGED <<raw, extracted, cxr_dir, cxr_images, eurosat_images, img_paths,
                   dir_seen, dl_calls, dl_ret, ex_calls, tfds,
                   grid_writes, montage_writes, hist_writes, labVars, grayVars>>

\* the slot of satellite image number i (from 0)
SatelliteSlotOneLow(i) == 6 + i

SatelliteSlot(i) == 7 + i

\* `if eurosat_images:` with an empty list, or the loop at its end
EndSatellite ==
    /\ pc = "sel_sat"
    /\ cur >= Min2(Len(eurosat_images), 3)
    /\ pc' = "glob" /\ cur' = 0
    /\ UNCHANGED <<fsVars, cxr_images, eurosat_images, selected, industrial_count,
                   img_paths, histVars, labVars, grayVars>>

\* one round of `for i, src in enumerate(eurosat_images[:3]):`, i = cur
SelectSatellite ==
    /\ pc = "sel_sat"
    /\ cur < Min2(Len(eurosat_images), 3)
    /\ LET src == eurosat_images[cur + 1]
       IN  SaveSelected("Satelite", src.file, src.name, SatelliteSlot(cur))
    /\ IF exc' = exc THEN pc' = pc /\ cur' = cur + 1 ELSE cur' = cur
    /\ UNCHANGED <<raw, extracted, cxr_dir, cxr_images, eurosat_images,
                   industrial_count, img_paths, dir_seen, dl_calls, dl_ret, ex_calls,
                   tfds, grid_writes, montage_writes, hist_writes, labVars, grayVars>>

\* sorted(IMG_DIR.glob("I*.png")): the slots that hold a file, in order
SortedSlots(F) == SortedSeq({n \in Slots : F[n].ok})

Glob ==
    /\ pc = "glob"
    /\ img_paths' = SortedSlots(images)
    /\ pc' = "grid"
    /\ UNCHANGED <<fsVars, cur, cxr_images, eurosat_images, selected,
                   industrial_count, histVars, labVars, grayVars>>

CanLoad(n, m) == {res \in load_gray(images[n], m) : res.ok} # {}
CanRaise(n, m) == {res \in load_gray(images[n], m) : ~res.ok} # {}

\* `if len(img_paths) >= 9:` and the grid of the first nine; the figure is
\* saved after the last load_gray, so none that raises leaves a figure
Grid ==
    /\ pc = "grid"
    /\ IF Len(img_paths) >= 9
       THEN \/ /\ \A i \in 1..9 : CanLoad(img_paths[i], GridMaxSide)
               /\ grid_writes' = grid_writes + 1
               /\ pc' = "montage" /\ exc' = exc
            \/ /\ \E i \in 1..9 :
                    /\ CanRaise(img_paths[i], GridMaxSide)
                    /\ \A j \in 1..(i - 1) : CanLoad(img_paths[j], GridMaxSide)
               /\ Crash("load_gray")
               /\ grid_writes' = grid_writes
       ELSE /\ pc' = "montage"
            /\ UNCHANGED <<grid_writes, exc>>
    /\ UNCHANGED <<fsVars, cur, cxr_images, eurosat_images, selected,
                   industrial_count, img_paths, dir_seen, dl_calls, dl_ret, ex_calls,
                   tfds, img_writes, montage_writes, hist_writes, labVars, grayVars>>

\* `for p in img_paths:` as a whole: the montages of the files before the
\* first load_gray that raises are written.  The banks are applied to the
\* loaded array (SpecImg) and raise nothing.
Montages ==
    /\ pc = "montage"
    /\ \E k \in 0..Len(img_paths) :
          /\ \A j \in 1..k : CanLoad(img_paths[j], DefaultMaxSide)
          /\ montage_writes' =
                [n \in Slots |-> IF \E j \in 1..k : img_paths[j] = n
                                 THEN montage_writes[n] + 1
                                 ELSE montage_writes[n]]
          /\ IF k = Len(img_paths)
             THEN pc' = "hist" /\ exc' = exc
             ELSE CanRaise(img_paths[k + 1], DefaultMaxSide) /\ Crash("load_gray")
    /\ UNCHANGED <<fsVars, cur, cxr_images, eurosat_images, selected,
                   industrial_count, img_paths, dir_seen, dl_calls, dl_ret, ex_calls,
                   tfds, img_writes, grid_writes, hist_writes, labVars, grayVars>>

\* `if (IMG_DIR / "I01.png").exists():` and the histogram figure
Hist ==
    /\ pc = "hist"
    /\ IF images[1].ok
       THEN \/ /\ CanLoad(1, DefaultMaxSide)
               /\ hist_writes' = [hist_writes EXCEPT ![1] = @ + 1]
               /\ pc' = "done" /\ exc' = exc
            \/ /\ CanRaise(1, DefaultMaxSide)
               /\ Crash("load_gray")
               /\ hist_writes' = hist_writes
       ELSE /\ pc' = "done"
            /\ UNCHANGED <<hist_writes, exc>>
    /\ UNCHANGED <<fsVars, cur, cxr_images, eurosat_images, selected,
                   industrial_count, img_paths, dir_seen, dl_calls, dl_ret, ex_calls,
                   tfds, img_writes, grid_writes, montage_writes, labVars, grayVars>>

\* what data_raw and images can hold when the run starts: per archive nothing,
\* a file cut short by an interrupted download, or the extracted directory;
\* in images nothing or the nine files of an earlier run
StartDisk ==
    {d \in [ArchiveSet -> {"absent", "partial", "extracted"}] :
        \A a \in ArchiveSet \ {"indiana"} : d[a] = "absent"}

StaleFile == SrcFile(512, 512)

StartImages ==
    {[n \in Slots |-> NoFile], [n \in Slots |-> StaleFile]}

InitRun ==
    /\ \E d \in StartDisk :
          /\ raw = [a \in ArchiveSet |->
                       CASE d[a] = "absent" -> "none"
                         [] d[a] = "partial" -> "partial"
                         [] OTHER -> "complete"]
          /\ extracted = [a \in ArchiveSet |-> d[a] = "extracted"]
          /\ cxr_dir \in IF d["indiana"] = "extracted"
                         THEN {c \in CxrDatasets : \A i \in 1..Len(c) : c[i].w = c[i].h}
                         ELSE {<<>>}
    /\ images \in StartImages
    /\ pc = "acquire" /\ cur = 1
    /\ cxr_images = <<>> /\ eurosat_images = <<>> /\ selected = <<>>
    /\ industrial_count = 0 /\ img_paths = <<>>
    /\ dir_seen = [a \in ArchiveSet |-> "unchecked"]
    /\ dl_calls = [a \in ArchiveSet |-> 0]
    /\ dl_ret = [a \in ArchiveSet |-> "none"]
    /\ ex_calls = [a \in ArchiveSet |-> 0]
    /\ tfds = "untried"
    /\ img_writes = [n \in Slots |-> 0]
    /\ grid_writes = 0
    /\ montage_writes = [n \in Slots |-> 0]
    /\ hist_writes = [n \in Slots |-> 0]
    /\ exc = ""

Init == InitRun /\ IdleLab /\ IdleGray

Next ==
    \/ SkipExisting \/ Download \/ Extract \/ ListCxr
    \/ ImportTfds \/ TfdsLoad \/ FallbackSample
    \/ SkipMedical \/ SelectMedical \/ SelectIndustrial
    \/ EndSatellite \/ SelectSatellite
    \/ Glob \/ Grid \/ Montages \/ Hist

Spec == Init /\ [][Next]_vars


(***************************************************************************)
(* One run of scripts/regenerar_figuras_eurosat.py (SpecRegen): it reads   *)
(* the images directory as it finds it and writes the figures.  The script *)
(* takes I0N.png, .jpg or .jpeg alike; a slot here is the first of them.   *)
(***************************************************************************)
montage_targets == {1, 4, 7}
hist_targets == {1, 4, 7}
metric_targets == {7, 8, 9}

\* image sizes tried: a usual one, one below ssim's window, one that is too
\* thin for max_side 400, one that is too thin for max_side 512 as well
RegenDims == {<<64, 64>>, <<6, 64>>, <<401, 1>>, <<1024, 1>>}

\* the slots whose image varies; the others hold a usual image
VarySlots == {1, 5, 7, 9}

RegenImages ==
    {[n \in Slots |-> IF n \in gone THEN NoFile
                      ELSE IF n \in VarySlots THEN SrcFile(d[n][1], d[n][2])
                      ELSE SrcFile(64, 64)] :
        d \in [VarySlots -> RegenDims], gone \in {{}, {2}}}

\* the loops `for p in img_paths: if img_id not in targets: continue`
Targeted(paths, targets) == SelectSeq(paths, LAMBDA n : n \in targets)

\* the writes of such a loop that gets through its first k targeted files
WritesOf(counts, paths, k) ==
    [n \in Slots |-> IF \E j \in 1..k : paths[j] = n THEN counts[n] + 1 ELSE counts[n]]

\* structural_similarity(x, y, data_range=1.0) with its default window of
\* seven pixels raises ValueError on an image with a side below the window
ssim_raises(res) == res.h < 7 \/ res.w < 7

MetricsPass(n) ==
    {res \in load_gray(images[n], DefaultMaxSide) : res.ok /\ ~ssim_raises(res)} # {}
MetricsRaise(n) ==
    {res \in load_gray(images[n], DefaultMaxSide) : ~res.ok \/ ssim_raises(res)} # {}

Discover ==
    /\ pc = "r_discover"
    /\ img_paths' = SortedSlots(images)
    /\ pc' = "r_grid"
    /\ UNCHANGED <<fsVars, cur, cxr_images, eurosat_images, selected,
                   industrial_count, histVars, labVars, grayVars>>

RegenGrid ==
    /\ pc = "r_grid"
    /\ IF Len(img_paths) >= 9
       THEN \/ /\ \A i \in 1..9 : CanLoad(img_paths[i], GridMaxSide)
               /\ grid_writes' = grid_writes + 1
               /\ pc' = "r_montage" /\ exc' = exc
            \/ /\ \E i \in 1..9 :
                    /\ CanRaise(img_paths[i], GridMaxSide)
                    /\ \A j \in 1..(i - 1) : CanLoad(img_paths[j], GridMaxSide)
               /\ Crash("load_gray")
               /\ grid_writes' = grid_writes
       ELSE /\ pc' = "r_montage"
            /\ UNCHANGED <<grid_writes, exc>>
    /\ UNCHANGED <<fsVars, cur, cxr_images, eurosat_images, selected,
                   industrial_count, img_paths, dir_seen, dl_calls, dl_ret, ex_calls,
                   tfds, img_writes, montage_writes, hist_writes, labVars, grayVars>>

RegenMontages ==
    /\ pc = "r_montage"
    /\ LET todo == Targeted(img_paths, montage_targets)
       IN  \E k \in 0..Len(todo) :
              /\ \A j \in 1..k : CanLoad(todo[j], DefaultMaxSide)
              /\ montage_writes' = WritesOf(montage_writes, todo, k)
              /\ IF k = Len(todo)
                 THEN pc' = "r_hist" /\ exc' = exc
                 ELSE CanRaise(todo[k + 1], DefaultMaxSide) /\ Crash("load_gray")
    /\ UNCHANGED <<fsVars, cur, cxr_images, eurosat_images, selected,
                   industrial_count, img_paths, dir_seen, dl_calls, dl_ret, ex_calls,
                   tfds, img_writes, grid_writes, hist_writes, labVars, grayVars>>

RegenHists ==
    /\ pc = "r_hist"
    /\ LET todo == Targeted(img_paths, hist_targets)
       IN  \E k \in 0..Len(todo) :
              /\ \A j \in 1..k : CanLoad(todo[j], DefaultMaxSide)
              /\ hist_writes' = WritesOf(hist_writes, todo, k)
              /\ IF k = Len(todo)
                 THEN pc' = "r_metrics" /\ exc' = exc
                 ELSE CanRaise(todo[k + 1], DefaultMaxSide) /\ Crash("load_gray")
    /\ UNCHANGED <<fsVars, cur, cxr_images, eurosat_images, selected,
                   industrial_count, img_paths, dir_seen, dl_calls, dl_ret, ex_calls,
                   tfds, img_writes, grid_writes, montage_writes, labVars, grayVars>>

\* the metrics of the satellite images: load_gray, the spatial bank, and per
\* result ssim, sigma_hat_fast and the standard deviation; only printed
RegenMetrics ==
    /\ pc = "r_metrics"
    /\ LET todo == Targeted(img_paths, metric_targets)
       IN  \/ /\ \A j \in 1..Len(todo) : MetricsPass(todo[j])
              /\ pc' = "done" /\ exc' = exc
           \/ /\ \E j \in 1..Len(todo) :
                   /\ MetricsRaise(todo[j])
                   /\ \A i \in 1..(j - 1) : MetricsPass(todo[i])
              /\ Crash("metrics")
    /\ UNCHANGED <<fsVars, cur, cxr_images, eurosat_images, selected,
                   industrial_count, img_paths, dir_seen, dl_calls, dl_ret, ex_calls,
                   tfds, img_writes, grid_writes, montage_writes, hist_writes,
                   labVars, grayVars>>

InitRegen ==
    /\ images \in RegenImages
    /\ raw = [a \in ArchiveSet |-> "none"]
    /\ extracted = [a \in ArchiveSet |-> FALSE]
    /\ cxr_dir = <<>>
    /\ pc = "r_discover" /\ cur = 0
    /\ cxr_images = <<>> /\ eurosat_images = <<>> /\ selected = <<>>
    /\ industrial_count = 0 /\ img_paths = <<>>
    /\ dir_seen = [a \in ArchiveSet |-> "unchecked"]
    /\ dl_calls = [a \in ArchiveSet |-> 0]
    /\ dl_ret = [a \in ArchiveSet |-> "none"]
    /\ ex_calls = [a \in ArchiveSet |-> 0]
    /\ tfds = "untried"
    /\ img_writes = [n \in Slots |-> 0]
    /\ grid_writes = 0
    /\ montage_writes = [n \in Slots |-> 0]
    /\ hist_writes = [n \in Slots |-> 0]
    /\ exc = ""
    /\ IdleLab /\ IdleGray

NextRegen == Discover \/ RegenGrid \/ RegenMontages \/ RegenHists \/ RegenMetrics

SpecRegen == InitRegen /\ [][NextRegen]_vars


(***************************************************************************)
(* download_file step by step, called again and again on one destination   *)
(* (SpecDl): data_raw/indiana.zip, over the calls of one run after the     *)
(* other.  The payload of the URL is PayloadChunks chunks; cur is the      *)
(* call's `downloaded`, which is also what the call has written to the     *)
(* file.  The outcomes of a whole call are those of download_file above.   *)
(***************************************************************************)
DlDest == "indiana"

\* `return True` / `return False`
DlReturn(ret) ==
    /\ dl_ret' = [dl_ret EXCEPT ![DlDest] = IF ret THEN "true" ELSE "false"]
    /\ pc' = "dl_idle"

\* entry of download_file: `if dest.exists(): return True`
DlCall ==
    /\ pc = "dl_idle"
    /\ dl_calls[DlDest] < MaxCalls
    /\ dl_calls' = [dl_calls EXCEPT ![DlDest] = @ + 1]
    /\ IF raw[DlDest] # "none"
       THEN DlReturn(TRUE)
       ELSE pc' = "dl_request" /\ dl_ret' = dl_ret
    /\ UNCHANGED <<fsVars, cur, cxr_images, eurosat_images, selected, industrial_count,
                   img_paths, dir_seen, ex_calls, tfds, img_writes, grid_writes,
                   montage_writes, hist_writes, exc, labVars, grayVars>>

\* urlopen raises (caught: return False), or answers; then downloaded = 0 and
\* open(dest, 'wb') creates the file, empty
DlUrlopen ==
    /\ pc = "dl_request"
    /\ \/ /\ DlReturn(FALSE)
          /\ UNCHANGED <<raw, cur>>
       \/ /\ raw' = [raw EXCEPT ![DlDest] = "partial"]
          /\ cur' = 0
          /\ pc' = "dl_read" /\ dl_ret' = dl_ret
    /\ UNCHANGED <<extracted, cxr_dir, images, cxr_images, eurosat_images, selected,
                   industrial_count, img_paths, dir_seen, dl_calls, ex_calls, tfds,
                   img_writes, grid_writes, montage_writes, hist_writes, exc,
                   labVars, grayVars>>

\* one round of `while True:`: response.read gives the next chunk, which is
\* written, or raises (caught: return False; the file stays as far as it was
\* written), or gives the empty chunk at the end of the payload (return True)
DlRead ==
    /\ pc = "dl_read"
    /\ IF cur < PayloadChunks
       THEN \/ /\ cur' = cur + 1
               /\ UNCHANGED <<raw, pc, dl_ret>>
            \/ /\ DlReturn(FALSE)
               /\ UNCHANGED <<raw, cur>>
       ELSE /\ raw' = [raw EXCEPT ![DlDest] = "complete"]
            /\ DlReturn(TRUE)
            /\ cur' = cur
    /\ UNCHANGED <<extracted, cxr_dir, images, cxr_images, eurosat_images, selected,
                   industrial_count, img_paths, dir_seen, dl_calls, ex_calls, tfds,
                   img_writes, grid_writes, montage_writes, hist_writes, exc,
                   labVars, grayVars>>

InitDl ==
    /\ raw = [a \in ArchiveSet |-> "none"]
    /\ extracted = [a \in ArchiveSet |-> FALSE]
    /\ cxr_dir = <<>>
    /\ images = [n \in Slots |-> NoFile]
    /\ pc = "dl_idle" /\ cur = 0
    /\ cxr_images = <<>> /\ eurosat_images = <<>> /\ selected = <<>>
    /\ industrial_count = 0 /\ img_paths = <<>>
    /\ dir_seen = [a \in ArchiveSet |-> "unchecked"]
    /\ dl_calls = [a \in ArchiveSet |-> 0]
    /\ dl_ret = [a \in ArchiveSet |-> "none"]
    /\ ex_calls = [a \in ArchiveSet |-> 0]
    /\ tfds = "untried"
    /\ img_writes = [n \in Slots |-> 0]
    /\ grid_writes = 0
    /\ montage_writes = [n \in Slots |-> 0]
    /\ hist_writes = [n \in Slots |-> 0]
    /\ exc = ""
    /\ IdleLab /\ IdleGray

NextDl == DlCall \/ DlUrlopen \/ DlRead

SpecDl == InitDl /\ [][NextDl]_vars


(***************************************************************************)
(* Properties of the filter banks (SpecImg).                               *)
(***************************************************************************)
\* a raster whose values all lie in [0, 1]
Normalized(img) ==
    /\ img.den > 0
    /\ \A v \in PixelSet(img.px) : 0 <= v /\ v <= img.den

Constant(img) == Cardinality(PixelSet(img.px)) = 1

BankNormalized(bank) == \A k \in DOMAIN bank : Normalized(bank[k])

\* C7: opening and closing by a fixed disk are idempotent: once the opening
\* (closing) of a raster by disk(r) has been put through morph_filters with the
\* same r, the bank's opening (closing) entry is that raster again.
C7_Idempotent ==
    (fed # "none" /\ M # EmptyBank) => M[MorphKey(fed, r)] = x

\* C7 witness: the bank was computed on an opening that is not a flat raster,
\* taken with a disk smaller than the raster
C7_Witness ==
    /\ fed = "opening" /\ M # EmptyBank /\ r = 1
    /\ ~Constant(x)

SpatialKeys ==
    {"gaussian_s1", "gaussian_s2", "median_r2", "median_r4",
     "unsharp_r1_a1", "sobel", "laplace", "canny_s12"}

\* C8: whatever the raster, spatial_filters returns exactly its eight keys and
\* morph_filters(x, r) exactly the five keys of opening, closing, tophat,
\* erosion and dilation at radius r (opening_r4 ... dilation_r4 for r = 4).
C8_FixedKeys ==
    /\ lab_pc \in {"morph", "pipelines", "done"} =>
          DOMAIN S = SpatialKeys /\ Cardinality(DOMAIN S) = 8
    /\ lab_pc \in {"pipelines", "done"} =>
          /\ DOMAIN M = {MorphKey(n, r) :
                           n \in {"opening", "closing", "tophat", "erosion", "dilation"}}
          /\ Cardinality(DOMAIN M) = 5
          /\ r = 4 => DOMAIN M = {"opening_r4", "closing_r4", "tophat_r4",
                                  "erosion_r4", "dilation_r4"}

\* C8 witness: both banks were computed on a flat raster, where no edge exists
C8_Witness ==
    /\ lab_pc = "done" /\ Constant(x) /\ r = 4
    /\ S # EmptyBank /\ M # EmptyBank

\* C10: for a raster with all values in [0, 1], every raster of every bank has
\* all its values in [0, 1].
C10_ResultsNormalized ==
    Normalized(x) => BankNormalized(S) /\ BankNormalized(M) /\ BankNormalized(P)

\* C10 witness: the three banks of a flat mid-gray raster, whose Sobel and
\* Laplacian maps are identically zero
C10_Witness ==
    /\ lab_pc = "done" /\ Constant(x) /\ x.px[1][1] = 1 /\ x.den = 2
    /\ PixelSet(S["sobel"].px) = {0} /\ PixelSet(S["laplace"].px) = {0}


(***************************************************************************)
(* Properties of the normalisation (SpecGray).                             *)
(***************************************************************************)
\* what the claim asks of an array returned for the file
GrayContract(f, m, res) ==
    /\ Normalized(res)
    /\ Max2(res.h, res.w) <= m
    /\ Max2(f.h, f.w) <= m => res.h = f.h /\ res.w = f.w

\* C1: for every image of positive width and height and max_side 400 or 512,
\* load_gray returns an array with all values in [0, 1], longer side at most
\* max_side, and the dimensions kept when the longer side was already within it.
C1_LoadGrayContract ==
    max_side # 0 => out.ok /\ GrayContract(file, max_side, out)

\* the part of C1 that holds: every array load_gray does return is as claimed
C1_WhenReturned ==
    (max_side # 0 /\ out.ok) => GrayContract(file, max_side, out)

(***************************************************************************)
(* Properties of a run of generar_figuras.py (Spec).                       *)
(***************************************************************************)
Names(imgs) == [i \in 1..Len(imgs) |-> imgs[i].name]

RECURSIVE IsSubSeq(_, _)
\* s is t with some entries left out
IsSubSeq(s, t) ==
    IF s = <<>> THEN TRUE
    ELSE IF t = <<>> THEN FALSE
    ELSE IF Head(s) = Head(t) THEN IsSubSeq(Tail(s), Tail(t))
    ELSE IsSubSeq(s, Tail(t))

\* the run is past the selection stage
SelectionOver ==
    \/ pc \in {"glob", "grid", "montage", "hist", "done"}
    \/ pc = "crashed" /\ exc = "load_gray"

\* the run is past the figure stage, or was ended within it
FigureStageOver ==
    \/ pc = "done"
    \/ pc = "crashed" /\ exc = "load_gray"

\* C2: no failure of the network or of an archive extraction during the
\* acquisition of the datasets ends the run: the script always goes on to the
\* selection and figure stages.
C2_AcquisitionNeverEndsRun ==
    ~(pc = "crashed" /\ exc \in {"extract", "tfds.load"})

\* C3 (as stated): once tensorflow_datasets failed to import, the satellite
\* list is the three images Residential, River, Forest, and the selection
\* stage writes I07, I08 and I09.
C3_ThreeFallbackImages ==
    tfds = "missing" =>
        /\ pc # "fallback" => Names(eurosat_images) = <<"Residential", "River", "Forest">>
        /\ SelectionOver => \A n \in 7..9 : img_writes[n] = 1

\* C3 (amended): once tensorflow_datasets failed to import, the satellite list
\* holds, in their order, those of Residential, River, Forest whose sample was
\* loaded and saved without an exception (none to three), and once the
\* selection stage is over exactly the slots I07.. of these images were written.
C3_FallbackSubstitutes ==
    tfds = "missing" =>
        /\ IsSubSeq(Names(eurosat_images), <<"Residential", "River", "Forest">>)
        /\ SelectionOver =>
              \A i \in 0..2 : img_writes[7 + i] = IF i < Len(eurosat_images) THEN 1 ELSE 0

C3_Witness ==
    /\ tfds = "missing" /\ pc = "done"
    /\ Names(eurosat_images) = <<"Residential", "Forest">>
    /\ img_writes[7] = 1 /\ img_writes[8] = 1 /\ img_writes[9] = 0

\* C5: in one run no archive is downloaded twice: download_file is called at
\* most once per archive and only when the archive's target directory was
\* found missing, and the extraction is attempted at most once and only after
\* that call returned True.
C5_NoRetry ==
    \A a \in ArchiveSet :
        /\ dl_calls[a] <= 1
        /\ ex_calls[a] <= 1
        /\ dl_calls[a] = 1 => dir_seen[a] = "missing"
        /\ ex_calls[a] = 1 => dl_calls[a] = 1 /\ dl_ret[a] = "true"

C5_Witness ==
    /\ pc = "done"
    /\ dir_seen["indiana"] = "exists" /\ dl_calls["indiana"] = 0 /\ ex_calls["indiana"] = 0
    /\ dl_ret["grid"] = "false" /\ dl_calls["grid"] = 1 /\ ex_calls["grid"] = 0
    /\ dl_ret["leather"] = "true" /\ ex_calls["leather"] = 1 /\ extracted["leather"]

DomainSlots(dom) ==
    CASE dom = "Medica" -> 1..3
      [] dom = "Industrial" -> 4..6
      [] dom = "Satelite" -> 7..9

\* C6: every selected image goes to the slot range of its domain (medical
\* I01-I03, industrial I04-I06, satellite I07-I09), at most nine images are
\* selected, and no I0N.png is written more than once in the run.
C6_SlotScheme ==
    /\ Len(selected) <= 9
    /\ \A k \in 1..Len(selected) : selected[k].dst \in DomainSlots(selected[k].dom)
    /\ \A n \in Slots :
          /\ img_writes[n] <= 1
          /\ img_writes[n] = Cardinality({k \in 1..Len(selected) : selected[k].dst = n})

C6_Witness ==
    /\ pc = "done"
    /\ Len(selected) = 9
    /\ \A n \in Slots : img_writes[n] = 1

\* C9: when the figure stage is over, originals_grid.png was written exactly
\* if at least nine files matched I*.png, every matching file has exactly one
\* montage (and no other slot has one), and I01_hist.png was written exactly
\* if images/I01.png exists, with no histogram for any other image.
C9_FigureStage ==
    FigureStageOver =>
        /\ grid_writes = IF Len(img_paths) >= 9 THEN 1 ELSE 0
        /\ \A n \in Slots :
              montage_writes[n] = IF \E j \in 1..Len(img_paths) : img_paths[j] = n
                                  THEN 1 ELSE 0
        /\ hist_writes[1] = IF images[1].ok THEN 1 ELSE 0
        /\ \A n \in Slots \ {1} : hist_writes[n] = 0

\* the same for the runs whose figure stage ran to its end
C9_WhenDone == pc = "done" => C9_FigureStage

(***************************************************************************)
(* Properties of a run of regenerar_figuras_eurosat.py (SpecRegen).        *)
(***************************************************************************)
RegenOver == pc \in {"done", "crashed"}

NineImages == \A n \in Slots : images[n].ok

\* C4: a run on an images directory that holds I01..I09 ends without an
\* exception, having written originals_grid.png once, one montage and one
\* histogram for each of I01, I04, I07, and none for any other image.
C4_RegenEndToEnd ==
    (NineImages /\ RegenOver) =>
        /\ pc = "done"
        /\ grid_writes = 1
        /\ \A n \in Slots :
              /\ montage_writes[n] = IF n \in {1, 4, 7} THEN 1 ELSE 0
              /\ hist_writes[n] = IF n \in {1, 4, 7} THEN 1 ELSE 0

\* the figures alone, for the runs in which no load_gray raised
C4_FiguresWhenLoaded ==
    (NineImages /\ RegenOver /\ exc # "load_gray") =>
        /\ grid_writes = 1
        /\ \A n \in Slots :
              /\ montage_writes[n] = IF n \in {1, 4, 7} THEN 1 ELSE 0
              /\ hist_writes[n] = IF n \in {1, 4, 7} THEN 1 ELSE 0

(***************************************************************************)
(* Properties of repeated downloads to one destination (SpecDl).           *)
(***************************************************************************)
\* the destination file holds the whole payload of the URL
DlFileComplete == raw[DlDest] # "none" /\ cur = PayloadChunks

\* C11: over any sequence of download_file calls on one destination, a call
\* that has returned True left the whole payload in the destination file; a
\* download that failed partway leaves nothing that a later call takes for a
\* finished download.
C11_TrueMeansComplete ==
    (pc = "dl_idle" /\ dl_ret[DlDest] = "true") => DlFileComplete

\* the same for the calls that did the download themselves
C11_FirstDownload ==
    (pc = "dl_idle" /\ dl_ret[DlDest] = "true" /\ dl_calls[DlDest] = 1) => DlFileComplete

(***************************************************************************)
(* Further properties of a run of generar_figuras.py (Spec).               *)
(***************************************************************************)
\* the run is past the medical selection
MedicalOver ==
    \/ pc \in {"sel_ind", "sel_sat"}
    \/ SelectionOver

MedicalSelected == SelectSeq(selected, LAMBDA e : e.dom = "Medica")

\* I01, I02, I03 were written, from three different radiographs
ThreeDistinctSources ==
    /\ Len(MedicalSelected) = 3
    /\ \A i \in 1..3 : MedicalSelected[i].dst = i /\ img_writes[i] = 1
    /\ \A i \in 1..3 : \A j \in 1..3 :
          i # j => MedicalSelected[i].src # MedicalSelected[j].src

\* C12: whenever at least one radiograph was found, the medical selection
\* writes I01, I02 and I03 from three pairwise distinct source images,
\* whatever the number of radiographs.
C12_ThreeDistinctRadiographs ==
    (cxr_images # <<>> /\ MedicalOver) => ThreeDistinctSources

\* the same from four radiographs on
C12_FromFourOn ==
    (Len(cxr_images) >= 4 /\ MedicalOver) => ThreeDistinctSources

(***************************************************************************)
(* Further properties of the normalisation (SpecGray).                     *)
(***************************************************************************)
\* C13: whenever save_as_png or load_gray downsizes an image of positive
\* width and height, both sides of the target are at least 1, whatever the
\* aspect ratio: the resize is never handed a zero-sized target (on which it
\* raises), and what it gives has positive sides.
C13_TargetSidesPositive ==
    /\ gray_pc # "raised"
    /\ file.h >= 1 /\ file.w >= 1
    /\ gray_pc = "loaded" => out.h >= 1 /\ out.w >= 1

\* the same for the images whose shorter side is at least half the longer one
C13_WhenNotThin ==
    (file.ok /\ 2 * Min2(file.h, file.w) >= Max2(file.h, file.w)) =>
        C13_TargetSidesPositive

(***************************************************************************)
(* What the figure stage of generar_figuras.py renders (Spec).             *)
(***************************************************************************)
\* slot n was written by the selection stage of this run and is in `selected`
WrittenThisRun(n) ==
    /\ img_writes[n] >= 1
    /\ \E k \in 1..Len(selected) : selected[k].dst = n

\* C14: every image that gets a montage, a cell of the grid or the I01
\* histogram was written by the selection stage of the same run and is listed
\* in `selected`; files that an earlier run left in images are neither
\* rendered nor counted among the images found.
C14_RendersOwnImagesOnly ==
    /\ \A n \in Slots :
          (montage_writes[n] > 0 \/ hist_writes[n] > 0) => WrittenThisRun(n)
    /\ grid_writes > 0 => \A i \in 1..9 : WrittenThisRun(img_paths[i])
    /\ FigureStageOver => \A i \in 1..Len(img_paths) : WrittenThisRun(img_paths[i])

\* the same for the runs that wrote all nine slots themselves
C14_WhenAllRewritten ==
    (\A n \in Slots : img_writes[n] = 1) => C14_RendersOwnImagesOnly

====
